---- MODULE Spec2Model ----
(***************************************************************************)
(* The turn controller of the CLI (the useGeminiStream hook): submitQuery, *)
(* the message queue, the escape handler, the stream event handlers and    *)
(* the tool-response effect, together with the tool scheduler and the      *)
(* model backend they talk to.                                             *)
(*                                                                         *)
(* React state is read by a handler through the closure of the render in   *)
(* which the handler was created.  A handler that is invoked from outside  *)
(* (a key press, a submitted line, an effect) is the one of the latest     *)
(* render and sees the current state; a submitQuery invocation that is     *)
(* suspended at an await keeps the streamingState, messageQueue and        *)
(* toolCalls.length it was called with (capState, capQueue, capToolLen),   *)
(* and the submitQuery it calls recursively is itself, with those same     *)
(* captured values.  Refs (.current) are always read live.                 *)
(***************************************************************************)
EXTENDS Integers, Sequences, FiniteSets, TLC

\* ---------------------------------------------------------------- bounds
MaxTurns  == 2   \* submitQuery invocations that start a turn
MaxEvents == 1   \* events one stream delivers
MaxTools  == 1   \* tool call ids
MaxQueue  == 4   \* lines the message queue holds
StackDepth == 6  \* nested calls the call stack holds before a RangeError

MaxTracked == 2  \* tool calls in a tracked list the scheduler starts with

TurnIds == 1..MaxTurns
ToolIds == 1..MaxTools
\* The call ids a tracked tool call can have.
CallIdSpace == 1..(IF MaxTracked > MaxTools THEN MaxTracked ELSE MaxTools)

\* ---------------------------------------------------------------- strings
\* A string is a sequence of one-character strings.
NL == "\n"
SP == " "

IsSpace(c) == c = SP \/ c = NL

\* String.prototype.trim
RECURSIVE TrimLeft(_)
TrimLeft(s) ==
  IF s = <<>> THEN <<>>
  ELSE IF IsSpace(Head(s)) THEN TrimLeft(Tail(s)) ELSE s

RECURSIVE TrimRight(_)
TrimRight(s) ==
  IF s = <<>> THEN <<>>
  ELSE IF IsSpace(s[Len(s)]) THEN TrimRight(SubSeq(s, 1, Len(s) - 1)) ELSE s

Trim(s) == TrimRight(TrimLeft(s))

\* String.prototype.split('\n'): the pieces between the newlines, empty
\* pieces included.
RECURSIVE SplitFrom(_, _)
SplitFrom(s, cur) ==
  IF s = <<>> THEN <<cur>>
  ELSE IF Head(s) = NL THEN <<cur>> \o SplitFrom(Tail(s), <<>>)
       ELSE SplitFrom(Tail(s), Append(cur, Head(s)))

SplitLines(s) == SplitFrom(s, <<>>)

NonBlank(q) == Len(Trim(q)) > 0

\* query.split('\n').filter((q) => q.trim().length > 0), the filter applied
\* to the pieces in order
\* A filter that keeps every line, blank ones too.
KeepAllLines(ls) == ls

RECURSIVE FilterNonBlank(_)
FilterNonBlank(ls) ==
  IF ls = <<>> THEN <<>>
  ELSE IF NonBlank(Head(ls)) THEN <<Head(ls)>> \o FilterNonBlank(Tail(ls))
       ELSE FilterNonBlank(Tail(ls))

QueryLines(s) == FilterNonBlank(SplitLines(s))

\* The lines a user can submit.
Inputs == { <<"a", NL, SP, NL, "b">>, <<SP>> }

\* ---------------------------------------------------------------- values
Idle == "Idle"
Responding == "Responding"
WaitingForConfirmation == "WaitingForConfirmation"

\* pendingHistoryItemRef.current = null
NoItem == [type |-> "null", text |-> <<>>, tools |-> <<>>]

TextItem(t, text) == [type |-> t, text |-> text, tools |-> <<>>]

\* { type: MessageType.INFO, text: 'Request cancelled.' }
RequestCancelledItem == TextItem("info", <<"Request cancelled.">>)

\* { type: MessageType.INFO, text: 'User cancelled the request.' }
UserCancelledItem == TextItem("info", <<"User cancelled the request.">>)

\* { type: MessageType.ERROR, text: parseAndFormatApiError(...) }
ErrorItem == TextItem("error", <<"[API Error]">>)

NoQuery == [kind |-> "none", val |-> <<>>]
StringQuery(s) == [kind |-> "string", val |-> s]
PartsQuery(ps) == [kind |-> "parts", val |-> ps]

\* A submitQuery invocation that has not been made.
NoInvocation ==
  [pc |-> "none", query |-> NoQuery, isCont |-> FALSE, capState |-> Idle,
   capQueue |-> <<>>, capToolLen |-> 0, buf |-> <<>>, reqs |-> <<>>, nEv |-> 0,
   cancelSeen |-> FALSE]

\* An invocation that has returned (or whose promise is rejected).
Settled(pc) == [NoInvocation EXCEPT !.pc = pc]

VARIABLES
  messageQueue,           \* useState<string[]>
  isResponding,           \* useState<boolean>
  thought,                \* useState<ThoughtSummary | null>
  pendingHistoryItem,     \* pendingHistoryItemRef.current (useStateAndRef)
  turnCancelledRef,       \* turnCancelledRef.current
  abortControllerRef,     \* abortControllerRef.current: 0 is null, else the
                          \* turn whose AbortController it is
  aborted,                \* aborted[i]: the signal of turn i's controller
  toolCalls,              \* the scheduler's tracked tool calls
  nTools,                 \* call ids handed out so far
  history,                \* the History Store, in addItem call order
  inv,                    \* the submitQuery invocations, by turn id
  nInv,                   \* turn ids handed out so far
  reentries,              \* reentries[t]: the continuation turns started
                          \* with the response of tool call t
  last                    \* the step taken last

vars ==
  << messageQueue, isResponding, thought, pendingHistoryItem, turnCancelledRef,
     abortControllerRef, aborted, toolCalls, nTools, history, inv, nInv,
     reentries, last >>

\* The step taken last: the operation, the turn or tool call it is about and,
\* for a submitted line, the line.
Step(op, id, arg) == [op |-> op, id |-> id, arg |-> arg]

\* ---------------------------------------------------------------- scheduler
Terminal(tc) == tc.status \in {"success", "error", "cancelled"}

\* A tracked tool call as schedule() first reports it.
Tracked(callId, signal) ==
  [callId |-> callId, status |-> "validating",
   responseSubmittedToGemini |-> FALSE, signal |-> signal]

\* schedule(requests, signal): the requests join the tracked list in order.
RECURSIVE ScheduleToolCalls(_, _, _)
ScheduleToolCalls(tcs, reqs, signal) ==
  IF reqs = <<>> THEN tcs
  ELSE ScheduleToolCalls(Append(tcs, Tracked(Head(reqs), signal)), Tail(reqs), signal)

\* markToolsAsSubmitted(callIds)
MarkToolsAsSubmitted(tcs, callIds) ==
  [k \in DOMAIN tcs |->
     IF \E j \in DOMAIN callIds : callIds[j] = tcs[k].callId
       THEN [tcs[k] EXCEPT !.responseSubmittedToGemini = TRUE]
       ELSE tcs[k]]

\* The lifecycle of a tracked tool call.
NextStatus(s) ==
  CASE s = "validating"        -> {"scheduled", "awaiting_approval", "error"}
    [] s = "awaiting_approval" -> {"scheduled", "cancelled"}
    [] s = "scheduled"         -> {"executing"}
    [] s = "executing"         -> {"success", "error", "cancelled"}
    [] OTHER                   -> {}

\* mapToDisplay: the display status of a tracked status.
DisplayStatus(s) ==
  CASE s = "validating"        -> "Executing"
    [] s = "awaiting_approval" -> "Confirming"
    [] s = "scheduled"         -> "Pending"
    [] s = "executing"         -> "Executing"
    [] s = "success"           -> "Success"
    [] s = "error"             -> "Error"
    [] OTHER                   -> "Canceled"

MapToDisplay(tcs) ==
  [type |-> "tool_group", text |-> <<>>,
   tools |-> [k \in DOMAIN tcs |->
                [callId |-> tcs[k].callId, status |-> DisplayStatus(tcs[k].status)]]]

\* tool.response.responseParts: a single Part for an odd call id, an array
\* of two Parts for an even one.
Part(callId, n) == [callId |-> callId, n |-> n]

ResponseParts(callId) ==
  IF callId % 2 = 1
    THEN [isArray |-> FALSE, parts |-> <<Part(callId, 0)>>]
    ELSE [isArray |-> TRUE, parts |-> <<Part(callId, 1), Part(callId, 2)>>]

\* ---------------------------------------------------------------- hook
\* A merge that takes one Part of each payload.
FirstPartOfEach(list) == [k \in DOMAIN list |-> list[k].parts[1]]

\* A merge without the else branch: items that are not arrays are skipped.
RECURSIVE MergeArraysOnly(_)
MergeArraysOnly(list) ==
  IF list = <<>> THEN <<>>
  ELSE IF Head(list).isArray
         THEN Head(list).parts \o MergeArraysOnly(Tail(list))
         ELSE MergeArraysOnly(Tail(list))

RECURSIVE mergePartListUnions(_)
mergePartListUnions(list) ==
  IF list = <<>> THEN <<>>
  ELSE IF Head(list).isArray
         THEN Head(list).parts \o mergePartListUnions(Tail(list))
         ELSE <<Head(list).parts[1]>> \o mergePartListUnions(Tail(list))

\* The first branch of streamingState: some tool call awaits approval.
AnyAwaitingApproval(tcs) ==
  \E k \in DOMAIN tcs : tcs[k].status = "awaiting_approval"

\* The second branch: a tool call is still running or its response has not
\* been submitted.
AnyToolActive(tcs) ==
  \E k \in DOMAIN tcs :
     \/ tcs[k].status \in {"executing", "scheduled", "validating"}
     \/ Terminal(tcs[k]) /\ ~tcs[k].responseSubmittedToGemini

\* The branches in the other order: Responding before WaitingForConfirmation.
RespondingFirst(resp, tcs) ==
  IF resp \/ AnyToolActive(tcs) THEN Responding
  ELSE IF AnyAwaitingApproval(tcs) THEN WaitingForConfirmation
  ELSE Idle

StreamingStateOf(resp, tcs) ==
  IF AnyAwaitingApproval(tcs) THEN WaitingForConfirmation
  ELSE IF resp \/ AnyToolActive(tcs) THEN Responding
  ELSE Idle

streamingState == StreamingStateOf(isResponding, toolCalls)

\* A flush that drops the item.
DropItem(h, item) == h

\* addItem(pendingHistoryItemRef.current, ...) when the ref is not null
Flush(h, item) == IF item = NoItem THEN h ELSE Append(h, item)

\* prev.slice(1)
Slice1(q) == IF q = <<>> THEN <<>> ELSE Tail(q)

\* submitQuery calling itself on the dequeue path (lines 531-537).  The
\* callee is the same closure: its messageQueue is the captured one, still
\* non-empty, so each call slices the live queue once more and calls again,
\* until the call stack is full.
RECURSIVE DequeueRecursion(_, _)
DequeueRecursion(q, depth) ==
  IF depth > StackDepth THEN q
  ELSE DequeueRecursion(Slice1(q), depth + 1)

Init ==
  /\ messageQueue = <<>>
  /\ isResponding = FALSE
  /\ thought = 0
  /\ pendingHistoryItem = NoItem
  /\ turnCancelledRef = FALSE
  /\ abortControllerRef = 0
  /\ aborted = [i \in TurnIds |-> FALSE]
  /\ toolCalls = <<>>
  /\ nTools = 0
  /\ history = <<>>
  /\ inv = [i \in TurnIds |-> NoInvocation]
  /\ nInv = 0
  /\ reentries = [t \in CallIdSpace |-> 0]
  /\ last = Step("Init", 0, <<>>)

\* ---------------------------------------------------------------- submitQuery
\* The test without !options?.isContinuation.
ActiveTurnCheckAnyCaller(state, isContinuation) ==
  state \in {Responding, WaitingForConfirmation}

\* Lines 507-511: a query is in progress and this is new user input.
ActiveTurnCheck(state, isContinuation) ==
  /\ state \in {Responding, WaitingForConfirmation}
  /\ ~isContinuation

\* Line 531: there are messages in the queue (as this closure sees it).
DequeueCheck(queue, isContinuation) ==
  Len(queue) > 0 /\ ~isContinuation

\* Lines 521-528 and 540-547: the turn starts and prepareQueryForGemini is
\* awaited.  The invocation keeps the state of the render it was made in.
NewInvocation(q, isContinuation) ==
  [pc |-> "prepare", query |-> q, isCont |-> isContinuation,
   capState |-> streamingState, capQueue |-> messageQueue,
   capToolLen |-> Len(toolCalls), buf |-> <<>>, reqs |-> <<>>, nEv |-> 0,
   cancelSeen |-> FALSE]

\* submitQuery(query) from the input prompt while a turn is active: the
\* non-blank lines join the queue.
SubmitEnqueue(q) ==
  /\ ActiveTurnCheck(streamingState, FALSE)
  /\ Len(messageQueue) + Len(QueryLines(q)) <= MaxQueue
  /\ messageQueue' = messageQueue \o QueryLines(q)
  /\ last' = Step("SubmitEnqueue", 0, q)
  /\ UNCHANGED << isResponding, thought, pendingHistoryItem, turnCancelledRef,
                  abortControllerRef, aborted, toolCalls, nTools, history,
                  inv, nInv, reentries >>

\* submitQuery(query) from the input prompt while no turn is active and
\* the queue is empty: a turn starts with the query.
SubmitStart(q) ==
  /\ ~ActiveTurnCheck(streamingState, FALSE)
  /\ ~DequeueCheck(messageQueue, FALSE)
  /\ nInv < MaxTurns
  /\ turnCancelledRef' = FALSE
  /\ abortControllerRef' = nInv + 1
  /\ isResponding' = TRUE
  /\ thought' = 0
  /\ nInv' = nInv + 1
  /\ inv' = [inv EXCEPT ![nInv + 1] = NewInvocation(StringQuery(q), FALSE)]
  /\ last' = Step("SubmitStart", nInv + 1, <<>>)
  /\ UNCHANGED << messageQueue, pendingHistoryItem, aborted, toolCalls, nTools,
                  history, reentries >>

\* submitQuery(query) from the input prompt while no turn is active and
\* the queue is not empty: the head is sliced off and submitQuery calls
\* itself with messageQueue[0]; the callee takes the same path, and so on
\* until the stack is full.  The RangeError rejects the innermost promise;
\* no call reaches prepareQueryForGemini.  Each call has reset the
\* cancellation flag and stored a new AbortController.
SubmitDequeue(q) ==
  /\ ~ActiveTurnCheck(streamingState, FALSE)
  /\ DequeueCheck(messageQueue, FALSE)
  /\ nInv < MaxTurns
  /\ turnCancelledRef' = FALSE
  /\ abortControllerRef' = nInv + 1
  /\ nInv' = nInv + 1
  /\ inv' = [inv EXCEPT ![nInv + 1] = Settled("overflow")]
  /\ messageQueue' = DequeueRecursion(messageQueue, 1)
  /\ last' = Step("SubmitDequeue", nInv + 1, <<>>)
  /\ UNCHANGED << isResponding, thought, pendingHistoryItem, aborted, toolCalls,
                  nTools, history, reentries >>

\* The queue and the stack after an invocation, resumed from an await, has
\* sliced the head off and called submitQuery(nextQuery) (lines 552-556 and
\* 607-609).  The callee is the invocation's own closure c: with a busy
\* captured state the line is enqueued again, at the tail; otherwise it
\* dequeues and recurses as in SubmitDequeue.
Resubmit(c, queue) ==
  IF ActiveTurnCheck(c.capState, FALSE)
    THEN [queue |-> Slice1(queue) \o QueryLines(c.capQueue[1]), overflow |-> FALSE]
    ELSE [queue |-> DequeueRecursion(Slice1(queue), 1), overflow |-> TRUE]

\* The test without toolCalls.length === 0.
DrainCheckIgnoringTools(c, cancelled, hasError, status) ==
  /\ ~cancelled
  /\ ~hasError
  /\ status = "Completed"
  /\ Len(c.capQueue) > 0

\* Lines 600-606: the test that guards the dequeue in finally.
DrainCheck(c, cancelled, hasError, status) ==
  /\ ~cancelled
  /\ ~hasError
  /\ status = "Completed"
  /\ c.capToolLen = 0
  /\ Len(c.capQueue) > 0

\* The end of an invocation i that leaves through `drain` (TRUE: it
\* dequeues and resubmits), abortControllerRef.current being `ref` before
\* that, and settles as `pc`: the queue, the refs and the invocation table.
Leave(i, drain, ref, pc, op, arg) ==
  LET r == IF drain THEN Resubmit(inv[i], messageQueue)
                    ELSE [queue |-> messageQueue, overflow |-> FALSE]
  IN /\ r.overflow => nInv < MaxTurns
     /\ messageQueue' = r.queue
     /\ turnCancelledRef' = IF r.overflow THEN FALSE ELSE turnCancelledRef
     /\ abortControllerRef' = IF r.overflow THEN nInv + 1 ELSE ref
     /\ nInv' = IF r.overflow THEN nInv + 1 ELSE nInv
     /\ inv' = IF r.overflow
                 THEN [inv EXCEPT ![i] = Settled(pc),
                                  ![nInv + 1] = Settled("overflow")]
                 ELSE [inv EXCEPT ![i] = Settled(pc)]
     /\ last' = Step(op, i, arg)

\* ---------------------------------------------------------------- prepareQueryForGemini
\* Lines 224-226: a string that is blank once trimmed.
IsBlankQuery(q) == q.kind = "string" /\ Len(Trim(q.val)) = 0

\* Lines 549-558 after prepareQueryForGemini said shouldProceed = false.
StopTurn(i, op) ==
  /\ isResponding' = FALSE
  /\ Leave(i, Len(inv[i].capQueue) > 0, abortControllerRef, "stopped", op, <<>>)

\* A blank query (lines 224-226), or a string that handleSlashCommand
\* reports handled (lines 241-243).  Which strings are commands is the
\* slash command processor's business: any non-blank string may be one.
PrepareStop(i) ==
  /\ inv[i].pc = "prepare"
  /\ inv[i].query.kind = "string"
  /\ StopTurn(i, "PrepareStop")
  /\ UNCHANGED << thought, pendingHistoryItem, aborted, toolCalls, nTools,
                  history, reentries >>

\* A slash command that wants a tool scheduled (lines 244-260).
PrepareTool(i) ==
  /\ inv[i].pc = "prepare"
  /\ inv[i].query.kind = "string" /\ ~IsBlankQuery(inv[i].query)
  /\ nTools < MaxTools
  /\ nTools' = nTools + 1
  /\ toolCalls' = ScheduleToolCalls(toolCalls, <<nTools + 1>>, i)
  /\ StopTurn(i, "PrepareTool")
  /\ UNCHANGED << thought, pendingHistoryItem, aborted, history, reentries >>

\* A normal query (lines 281-287) or a function response (288-291):
\* shouldProceed, and performMemoryRefresh is awaited.
PrepareProceed(i) ==
  /\ inv[i].pc = "prepare"
  /\ ~IsBlankQuery(inv[i].query)
  /\ LET q == inv[i].query IN
       IF q.kind = "string"
         THEN /\ history' = Append(history, TextItem("user", Trim(q.val)))
              /\ inv' = [inv EXCEPT ![i].pc = "refresh",
                                    ![i].query = StringQuery(Trim(q.val))]
         ELSE /\ history' = history
              /\ inv' = [inv EXCEPT ![i].pc = "refresh"]
  /\ last' = Step("PrepareProceed", i, <<>>)
  /\ UNCHANGED << messageQueue, isResponding, thought, pendingHistoryItem,
                  turnCancelledRef, abortControllerRef, aborted, toolCalls,
                  nTools, nInv, reentries >>

\* Lines 565-569: the memory refresh is done and sendMessageStream is called
\* with queryToSend and the turn's signal.
OpenStream(i) ==
  /\ inv[i].pc = "refresh"
  /\ inv' = [inv EXCEPT ![i].pc = "stream"]
  /\ last' = Step("OpenStream", i, <<>>)
  /\ UNCHANGED << messageQueue, isResponding, thought, pendingHistoryItem,
                  turnCancelledRef, abortControllerRef, aborted, toolCalls,
                  nTools, history, nInv, reentries >>

\* ---------------------------------------------------------------- stream events
\* The text deltas a Content event can carry.
Deltas == { <<"x">> }

\* findLastSafeSplitPoint: the index after the last blank line, or the
\* length of the content when there is none.
DoubleNewlines(s) == { k \in 1..(Len(s) - 1) : s[k] = NL /\ s[k + 1] = NL }

findLastSafeSplitPoint(s) ==
  IF DoubleNewlines(s) = {} THEN Len(s)
  ELSE (CHOOSE k \in DoubleNewlines(s) : \A j \in DoubleNewlines(s) : j <= k) + 1

IsGeminiItem(item) == item.type \in {"gemini", "gemini_content"}

\* A handler that, after a split, keeps the whole buffer instead of the
\* text after the split point.
ContentKeepingBuffer(cancelled, delta, buffer, pending, h) ==
  IF cancelled
    THEN [buf |-> <<>>, pending |-> pending, history |-> h]
    ELSE
      LET fresh == pending.type \notin {"gemini", "gemini_content"}
          h1    == IF fresh THEN Flush(h, pending) ELSE h
          t1    == IF fresh THEN "gemini" ELSE pending.type
          b1    == IF fresh THEN delta ELSE buffer \o delta
          split == findLastSafeSplitPoint(b1)
      IN IF split = Len(b1)
           THEN [buf |-> b1, pending |-> TextItem(t1, b1), history |-> h1]
           ELSE [buf |-> b1, pending |-> TextItem("gemini_content", b1),
                 history |-> Append(h1, TextItem(t1, SubSeq(b1, 1, split)))]

\* handleContentEvent as a function of the buffer, the pending item and the
\* history: the new buffer, pending item and history.
handleContentEvent(cancelled, delta, buffer, pending, h) ==
  IF cancelled
    THEN [buf |-> <<>>, pending |-> pending, history |-> h]
    ELSE
      LET fresh == ~IsGeminiItem(pending)
          h1    == IF fresh THEN Flush(h, pending) ELSE h
          p1    == IF fresh THEN TextItem("gemini", <<>>) ELSE pending
          b1    == IF fresh THEN delta ELSE buffer \o delta
          split == findLastSafeSplitPoint(b1)
      IN IF split = Len(b1)
           THEN [buf |-> b1, pending |-> TextItem(p1.type, b1), history |-> h1]
           ELSE [buf |-> SubSeq(b1, split + 1, Len(b1)),
                 pending |-> TextItem("gemini_content", SubSeq(b1, split + 1, Len(b1))),
                 history |-> Append(h1, TextItem(p1.type, SubSeq(b1, 1, split)))]

\* A map that marks every tool of the group Canceled.
CancelEveryTool(tools) == [k \in DOMAIN tools |-> [tools[k] EXCEPT !.status = "Canceled"]]

\* Lines 380-391: the tools of a pending tool group, the unfinished ones
\* marked Canceled.
CancelTools(tools) ==
  [k \in DOMAIN tools |->
     IF tools[k].status \in {"Pending", "Confirming", "Executing"}
       THEN [tools[k] EXCEPT !.status = "Canceled"]
       ELSE tools[k]]

CancelledItem(item) ==
  IF item.type = "tool_group" THEN [item EXCEPT !.tools = CancelTools(item.tools)]
  ELSE item

\* A handler that flushes the pending item and adds no error entry.
FlushOnly(pending, h) == Flush(h, pending)

\* handleErrorEvent: the history after the flush and the error entry.
handleErrorEvent(pending, h) == Append(Flush(h, pending), ErrorItem)

Streaming(i) == inv[i].pc = "stream" /\ inv[i].nEv < MaxEvents

\* case ServerGeminiEventType.Content: the loop hands the delta and its
\* buffer to handleContentEvent and keeps the buffer it returns.
OnContent(i, delta) ==
  /\ inv[i].pc = "stream"
  /\ LET r == handleContentEvent(turnCancelledRef, delta, inv[i].buf,
                                 pendingHistoryItem, history)
     IN /\ inv' = [inv EXCEPT ![i].buf = r.buf, ![i].nEv = @ + 1]
        /\ pendingHistoryItem' = r.pending
        /\ history' = r.history
  /\ last' = Step("ContentEvent", i, delta)
  /\ UNCHANGED << messageQueue, isResponding, thought, turnCancelledRef,
                  abortControllerRef, aborted, toolCalls, nTools, nInv, reentries >>

ContentEvent(i, delta) == Streaming(i) /\ OnContent(i, delta)

\* case ServerGeminiEventType.ToolCallRequest: toolCallRequests.push
OnToolCallRequest(i) ==
  /\ inv[i].pc = "stream"
  /\ nTools' = nTools + 1
  /\ inv' = [inv EXCEPT ![i].reqs = Append(@, nTools + 1), ![i].nEv = @ + 1]
  /\ last' = Step("ToolCallRequestEvent", i, <<>>)
  /\ UNCHANGED << messageQueue, isResponding, thought, pendingHistoryItem,
                  turnCancelledRef, abortControllerRef, aborted, toolCalls,
                  history, nInv, reentries >>

ToolCallRequestEvent(i) == Streaming(i) /\ nTools < MaxTools /\ OnToolCallRequest(i)

\* case ServerGeminiEventType.UserCancelled: handleUserCancelledEvent
OnUserCancelled(i) ==
  /\ inv[i].pc = "stream"
  /\ inv' = [inv EXCEPT ![i].nEv = @ + 1, ![i].cancelSeen = TRUE]
  /\ IF turnCancelledRef
       THEN UNCHANGED << pendingHistoryItem, history, isResponding, reentries >>
       ELSE /\ history' = Append(Flush(history, CancelledItem(pendingHistoryItem)),
                                 UserCancelledItem)
            /\ pendingHistoryItem' = NoItem
            /\ isResponding' = FALSE
  /\ last' = Step("UserCancelledEvent", i, <<>>)
  /\ UNCHANGED << messageQueue, thought, turnCancelledRef, abortControllerRef,
                  aborted, toolCalls, nTools, nInv, reentries >>

UserCancelledEvent(i) == Streaming(i) /\ OnUserCancelled(i)

\* An Error case that also drops the tool call requests collected so far.
ErrorDroppingRequests(i) ==
  /\ inv[i].pc = "stream"
  /\ inv' = [inv EXCEPT ![i].nEv = @ + 1, ![i].reqs = <<>>]
  /\ history' = Append(Flush(history, pendingHistoryItem), ErrorItem)
  /\ pendingHistoryItem' = NoItem
  /\ last' = Step("ErrorEvent", i, <<>>)
  /\ UNCHANGED << messageQueue, isResponding, thought, turnCancelledRef,
                  abortControllerRef, aborted, toolCalls, nTools, nInv, reentries >>

\* case ServerGeminiEventType.Error: handleErrorEvent
OnError(i) ==
  /\ inv[i].pc = "stream"
  /\ inv' = [inv EXCEPT ![i].nEv = @ + 1]
  /\ history' = handleErrorEvent(pendingHistoryItem, history)
  /\ pendingHistoryItem' = NoItem
  /\ last' = Step("ErrorEvent", i, <<>>)
  /\ UNCHANGED << messageQueue, isResponding, thought, turnCancelledRef,
                  abortControllerRef, aborted, toolCalls, nTools, nInv, reentries >>

ErrorEvent(i) == Streaming(i) /\ OnError(i)

\* handleChatCompressionEvent: the entry it adds.
CompressedItem == TextItem("info", <<"IMPORTANT: compressed context">>)

\* A Thought case that keeps the first summary of the turn.
FirstThoughtWins(i, t) ==
  /\ inv[i].pc = "stream"
  /\ inv' = [inv EXCEPT ![i].nEv = @ + 1]
  /\ thought' = IF thought = 0 THEN t ELSE thought
  /\ last' = Step("ThoughtEvent", i, <<t>>)
  /\ UNCHANGED << messageQueue, isResponding, pendingHistoryItem, turnCancelledRef,
                  abortControllerRef, aborted, toolCalls, nTools, history, nInv,
                  reentries >>

\* case ServerGeminiEventType.Thought: setThought(event.value); the
\* summaries are numbered from 1, 0 is null.
OnThought(i, t) ==
  /\ inv[i].pc = "stream"
  /\ inv' = [inv EXCEPT ![i].nEv = @ + 1]
  /\ thought' = t
  /\ last' = Step("ThoughtEvent", i, <<t>>)
  /\ UNCHANGED << messageQueue, isResponding, pendingHistoryItem, turnCancelledRef,
                  abortControllerRef, aborted, toolCalls, nTools, history, nInv,
                  reentries >>

ThoughtEvent(i) == Streaming(i) /\ OnThought(i, 1)

\* case ServerGeminiEventType.ChatCompressed: handleChatCompressionEvent
OnChatCompressed(i) ==
  /\ inv[i].pc = "stream"
  /\ inv' = [inv EXCEPT ![i].nEv = @ + 1]
  /\ history' = Append(history, CompressedItem)
  /\ last' = Step("ChatCompressedEvent", i, <<>>)
  /\ UNCHANGED << messageQueue, isResponding, thought, pendingHistoryItem,
                  turnCancelledRef, abortControllerRef, aborted, toolCalls, nTools,
                  nInv, reentries >>

ChatCompressedEvent(i) == Streaming(i) /\ OnChatCompressed(i)

\* A UsageMetadata case that forgets the call.
UsageNotForwarded(i) ==
  /\ inv[i].pc = "stream"
  /\ inv' = [inv EXCEPT ![i].nEv = @ + 1]
  /\ last' = Step("UsageMetadataEvent", i, <<>>)
  /\ UNCHANGED << messageQueue, isResponding, thought, pendingHistoryItem,
                  turnCancelledRef, abortControllerRef, aborted, toolCalls, nTools,
                  history, nInv, reentries >>

\* case ServerGeminiEventType.UsageMetadata: addUsage(event.value), a call
\* to the session statistics; the step records it.
OnUsageMetadata(i) ==
  /\ inv[i].pc = "stream"
  /\ inv' = [inv EXCEPT ![i].nEv = @ + 1]
  /\ last' = Step("UsageMetadataEvent", i, <<"addUsage">>)
  /\ UNCHANGED << messageQueue, isResponding, thought, pendingHistoryItem,
                  turnCancelledRef, abortControllerRef, aborted, toolCalls, nTools,
                  history, nInv, reentries >>

UsageMetadataEvent(i) == Streaming(i) /\ OnUsageMetadata(i)

\* case ServerGeminiEventType.ToolCallConfirmation and ToolCallResponse:
\* nothing is done; the step records that no call was made.
VoidEvents == { "ToolCallConfirmation", "ToolCallResponse" }

OnVoidEvent(i, type) ==
  /\ inv[i].pc = "stream"
  /\ inv' = [inv EXCEPT ![i].nEv = @ + 1]
  /\ last' = Step(type, i, <<>>)
  /\ UNCHANGED << messageQueue, isResponding, thought, pendingHistoryItem,
                  turnCancelledRef, abortControllerRef, aborted, toolCalls, nTools,
                  history, nInv, reentries >>

\* ---------------------------------------------------------------- the end of a turn
\* Lines 589-611, entered with the history, pending item and tool calls the
\* try or catch block left.
Finally(i, status, hasError, h, pending, tcs, op, note) ==
  /\ history' = Flush(h, pending)
  /\ pendingHistoryItem' = NoItem
  /\ isResponding' = FALSE
  /\ toolCalls' = tcs
  /\ Leave(i, DrainCheck(inv[i], turnCancelledRef, hasError, status), 0,
           IF hasError THEN "failed" ELSE "done", op,
           <<status, IF hasError THEN "error" ELSE "ok">> \o note)

\* A stream end that drops the collected requests.
StreamEndUnscheduled(i) ==
  /\ inv[i].pc = "stream"
  /\ Finally(i, "Completed", FALSE, history, pendingHistoryItem, toolCalls,
             "StreamEnd", <<>>)
  /\ UNCHANGED << thought, aborted, nTools, reentries >>

\* The stream ends: the collected tool call requests are scheduled as one
\* batch (lines 488-491) and the status is Completed.
StreamEnd(i) ==
  /\ inv[i].pc = "stream"
  /\ Finally(i, "Completed", FALSE, history, pendingHistoryItem,
             ScheduleToolCalls(toolCalls, inv[i].reqs, i), "StreamEnd", <<>>)
  /\ UNCHANGED << thought, aborted, nTools, reentries >>

\* What performMemoryRefresh, sendMessageStream or the stream can throw.
Failures == { "UnauthorizedError", "ERR_CANCELED", "Error" }

\* Lines 577-578: the calls the catch block makes to the handlers it was
\* given from outside.
CatchCalls(e) == IF e = "UnauthorizedError" THEN <<"onAuthError">> ELSE <<>>

\* Lines 575-588: the catch block.  The step records what was thrown and
\* the outside handlers called.
StreamThrow(i, e) ==
  /\ inv[i].pc \in {"refresh", "stream"}
  /\ IF e = "Error"
       THEN Finally(i, "Completed", TRUE,
                    handleErrorEvent(pendingHistoryItem, history), NoItem,
                    toolCalls, "StreamThrow", <<e, CatchCalls(e)>>)
       ELSE Finally(i, IF e = "ERR_CANCELED" THEN "UserCancelled" ELSE "Completed",
                    TRUE, history, pendingHistoryItem, toolCalls, "StreamThrow",
                    <<e, CatchCalls(e)>>)
  /\ UNCHANGED << thought, aborted, nTools, reentries >>

\* ---------------------------------------------------------------- escape
\* The test without the early return on turnCancelledRef.current.
EscapeWhileResponding(state, cancelled) == state = Responding

\* Lines 191-194: the key press cancels the turn.
EscapeAccepted(state, cancelled) == state = Responding /\ ~cancelled

\* useInput: escape while Responding and the turn not yet cancelled.
Escape ==
  /\ EscapeAccepted(streamingState, turnCancelledRef)
  /\ turnCancelledRef' = TRUE
  /\ aborted' = IF abortControllerRef = 0 THEN aborted
                ELSE [aborted EXCEPT ![abortControllerRef] = TRUE]
  /\ history' = Append(Flush(history, pendingHistoryItem), RequestCancelledItem)
  /\ pendingHistoryItem' = NoItem
  /\ isResponding' = FALSE
  /\ last' = Step("Escape", 0, <<>>)
  /\ UNCHANGED << messageQueue, thought, abortControllerRef, toolCalls, nTools,
                  inv, nInv, reentries >>

\* useInput: escape in any other state does nothing.
EscapeIgnored ==
  /\ ~EscapeAccepted(streamingState, turnCancelledRef)
  /\ last' = Step("EscapeIgnored", 0, <<>>)
  /\ UNCHANGED << messageQueue, isResponding, thought, pendingHistoryItem,
                  turnCancelledRef, abortControllerRef, aborted, toolCalls,
                  nTools, history, inv, nInv, reentries >>

\* ---------------------------------------------------------------- tool responses
\* A filter that looks at the status only.
CompletedOnly(tc) == Terminal(tc)

\* Lines 633-639: the filter of the effect.
CompletedAndUnsubmitted(tc) == Terminal(tc) /\ ~tc.responseSubmittedToGemini

CompletedTools == SelectSeq(toolCalls, CompletedAndUnsubmitted)

CallIds(tcs) == [k \in DOMAIN tcs |-> tcs[k].callId]

ToolParts(tcs) == [k \in DOMAIN tcs |-> ResponseParts(tcs[k].callId)]

\* The effect on toolCalls: the completed tool calls are marked submitted
\* and their responses, merged, start a continuation turn (submitQuery with
\* isContinuation passes both checks).
ToolResponseEffect ==
  /\ Len(CompletedTools) > 0
  /\ ~ActiveTurnCheck(streamingState, TRUE)
  /\ ~DequeueCheck(messageQueue, TRUE)
  /\ nInv < MaxTurns
  /\ toolCalls' = MarkToolsAsSubmitted(
                    MarkToolsAsSubmitted(toolCalls, CallIds(CompletedTools)),
                    CallIds(CompletedTools))
  /\ turnCancelledRef' = FALSE
  /\ abortControllerRef' = nInv + 1
  /\ isResponding' = TRUE
  /\ thought' = 0
  /\ nInv' = nInv + 1
  /\ inv' = [inv EXCEPT ![nInv + 1] =
               NewInvocation(PartsQuery(mergePartListUnions(ToolParts(CompletedTools))),
                             TRUE)]
  /\ reentries' = [t \in CallIdSpace |->
                     IF \E k \in DOMAIN CompletedTools : CompletedTools[k].callId = t
                       THEN reentries[t] + 1 ELSE reentries[t]]
  /\ last' = Step("ToolResponseEffect", nInv + 1, <<>>)
  /\ UNCHANGED << messageQueue, pendingHistoryItem, aborted, nTools, history >>

\* ---------------------------------------------------------------- collaborators
\* The batch a tool call was scheduled in: the calls with its signal.
Batch(tcs, signal) == SelectSeq(tcs, LAMBDA tc : tc.signal = signal)

AllTerminal(tcs) == \A k \in DOMAIN tcs : Terminal(tcs[k])

\* handleToolCompletion: the final state of a finished batch joins the
\* history.
handleToolCompletion(h, completed) ==
  IF Len(completed) > 0 THEN Append(h, MapToDisplay(completed)) ELSE h

\* The scheduler moves tool call k to status s; when that finishes the
\* batch it calls handleToolCompletion.
ToolProgress(k, s) ==
  /\ k \in DOMAIN toolCalls
  /\ s \in NextStatus(toolCalls[k].status)
  /\ toolCalls' = [toolCalls EXCEPT ![k].status = s]
  /\ history' = IF AllTerminal(Batch(toolCalls', toolCalls[k].signal))
                  THEN handleToolCompletion(history,
                                            Batch(toolCalls', toolCalls[k].signal))
                  ELSE history
  /\ last' = Step("ToolProgress", k, <<>>)
  /\ UNCHANGED << messageQueue, isResponding, thought, pendingHistoryItem,
                  turnCancelledRef, abortControllerRef, aborted, nTools, inv,
                  nInv, reentries >>

\* A collaborator that was handed setPendingHistoryItem shows the running
\* tool calls as the pending tool group.
ShowToolGroup ==
  /\ pendingHistoryItem = NoItem
  /\ ~AllTerminal(toolCalls)
  /\ pendingHistoryItem' = MapToDisplay(toolCalls)
  /\ last' = Step("ShowToolGroup", 0, <<>>)
  /\ UNCHANGED << messageQueue, isResponding, thought, turnCancelledRef,
                  abortControllerRef, aborted, toolCalls, nTools, history, inv,
                  nInv, reentries >>

\* ---------------------------------------------------------------- specification
Next ==
  \/ \E q \in Inputs : SubmitEnqueue(q)
  \/ \E q \in Inputs : SubmitStart(q)
  \/ \E q \in Inputs : SubmitDequeue(q)
  \/ \E i \in TurnIds : PrepareStop(i)
  \/ \E i \in TurnIds : PrepareTool(i)
  \/ \E i \in TurnIds : PrepareProceed(i)
  \/ \E i \in TurnIds : OpenStream(i)
  \/ \E i \in TurnIds, d \in Deltas : ContentEvent(i, d)
  \/ \E i \in TurnIds : ToolCallRequestEvent(i)
  \/ \E i \in TurnIds : UserCancelledEvent(i)
  \/ \E i \in TurnIds : ErrorEvent(i)
  \/ \E i \in TurnIds : ThoughtEvent(i)
  \/ \E i \in TurnIds : ChatCompressedEvent(i)
  \/ \E i \in TurnIds : UsageMetadataEvent(i)
  \/ \E i \in TurnIds : StreamEnd(i)
  \/ \E i \in TurnIds, e \in Failures : StreamThrow(i, e)
  \/ Escape
  \/ EscapeIgnored
  \/ ToolResponseEffect
  \/ \E k \in ToolIds, s \in {"scheduled", "awaiting_approval", "executing",
                              "success", "error", "cancelled"} : ToolProgress(k, s)

Spec == Init /\ [][Next]_vars

\* The same with a collaborator that shows the running tool calls as the
\* pending item.
NextGroup == Next \/ ShowToolGroup

SpecGroup == Init /\ [][NextGroup]_vars

\* ---------------------------------------------------------------- tool lists
\* The hook mounted on a scheduler that already tracks tool calls: every
\* list of at most MaxTracked tool calls with distinct call ids, in any
\* order and any status; only a finished one can be marked submitted.
Statuses ==
  { "validating", "scheduled", "awaiting_approval", "executing", "success",
    "error", "cancelled" }

TrackedShapes ==
  { tc \in [callId : CallIdSpace, status : Statuses,
            responseSubmittedToGemini : BOOLEAN, signal : {0}] :
      tc.responseSubmittedToGemini => Terminal(tc) }

TrackedLists ==
  UNION { { l \in [1..n -> TrackedShapes] :
              \A j, k \in 1..n : j # k => l[j].callId # l[k].callId } :
          n \in 0..MaxTracked }

InitTools ==
  /\ messageQueue = <<>>
  /\ isResponding \in BOOLEAN
  /\ thought = 0
  /\ pendingHistoryItem = NoItem
  /\ turnCancelledRef = FALSE
  /\ abortControllerRef = 0
  /\ aborted = [i \in TurnIds |-> FALSE]
  /\ toolCalls \in TrackedLists
  /\ nTools = MaxTools
  /\ history = <<>>
  /\ inv = [i \in TurnIds |-> NoInvocation]
  /\ nInv = 0
  /\ reentries = [t \in CallIdSpace |-> 0]
  /\ last = Step("Init", 0, <<>>)

\* A render reads the memoized streamingState.
ReadStreamingState ==
  /\ last' = Step("streamingState", 0, <<streamingState>>)
  /\ UNCHANGED << messageQueue, isResponding, thought, pendingHistoryItem,
                  turnCancelledRef, abortControllerRef, aborted, toolCalls,
                  nTools, history, inv, nInv, reentries >>

NextTools ==
  \/ ReadStreamingState
  \/ ToolResponseEffect
  \/ \E k \in 1..MaxTracked, s \in Statuses : ToolProgress(k, s)
  \/ \E i \in TurnIds : PrepareProceed(i)
  \/ \E i \in TurnIds : OpenStream(i)
  \/ \E i \in TurnIds : StreamEnd(i)

SpecTools == InitTools /\ [][NextTools]_vars

\* ---------------------------------------------------------------- one long stream
\* One turn whose stream carries up to MaxDeltas events: text deltas with
\* and without blank lines, and up to MaxTracked tool call requests.
MaxDeltas == 4

StreamTurns == 1

StreamDeltas == { <<"x">>, <<NL>>, <<NL, NL>> }

StreamSubmit(q) == nInv < StreamTurns /\ SubmitStart(q)

ContentDelta(i, delta) == inv[i].nEv < MaxDeltas /\ OnContent(i, delta)

RequestMore(i) ==
  inv[i].nEv < MaxDeltas /\ nTools < MaxTracked /\ OnToolCallRequest(i)

NextStream ==
  \/ \E q \in Inputs : StreamSubmit(q)
  \/ \E i \in TurnIds : PrepareProceed(i)
  \/ \E i \in TurnIds : OpenStream(i)
  \/ \E i \in TurnIds, d \in StreamDeltas : ContentDelta(i, d)
  \/ \E i \in TurnIds : RequestMore(i)
  \/ \E i \in TurnIds : StreamEnd(i)

SpecStream == Init /\ [][NextStream]_vars

\* ---------------------------------------------------------------- a stream with errors
\* The long stream with Error events among its deltas and requests.
LateError(i) == inv[i].nEv < MaxDeltas /\ OnError(i)

NextError == NextStream \/ \E i \in TurnIds : LateError(i)

SpecError == Init /\ [][NextError]_vars

\* ---------------------------------------------------------------- a stream with notices
\* The long stream with Error, ChatCompressed and UserCancelled events among
\* its deltas and requests.
LateUserCancelled(i) == inv[i].nEv < MaxDeltas /\ OnUserCancelled(i)

LateChatCompressed(i) == inv[i].nEv < MaxDeltas /\ OnChatCompressed(i)

NextOrder ==
  \/ NextError
  \/ \E i \in TurnIds : LateChatCompressed(i)
  \/ \E i \in TurnIds : LateUserCancelled(i)

SpecOrder == Init /\ [][NextOrder]_vars

\* ---------------------------------------------------------------- a stream with side events
\* The long stream with Thought, UsageMetadata, ToolCallConfirmation and
\* ToolCallResponse events among its deltas and requests.
MaxThoughts == 2

LateThought(i, t) == inv[i].nEv < MaxDeltas /\ OnThought(i, t)

LateUsageMetadata(i) == inv[i].nEv < MaxDeltas /\ OnUsageMetadata(i)

LateVoidEvent(i, type) == inv[i].nEv < MaxDeltas /\ OnVoidEvent(i, type)

NextSide ==
  \/ NextStream
  \/ \E i \in TurnIds, t \in 1..MaxThoughts : LateThought(i, t)
  \/ \E i \in TurnIds : LateUsageMetadata(i)
  \/ \E i \in TurnIds, type \in VoidEvents : LateVoidEvent(i, type)

SpecSide == Init /\ [][NextSide]_vars

\* ---------------------------------------------------------------- cancel with a tool group
\* The hook on a scheduler that already tracks tool calls, with the
\* collaborator that shows them as the pending tool group, the key press
\* and the Content and UserCancelled events of the continuation's stream.
NextCancel ==
  \/ ToolResponseEffect
  \/ \E i \in TurnIds : PrepareProceed(i)
  \/ \E i \in TurnIds : OpenStream(i)
  \/ \E i \in TurnIds : StreamEnd(i)
  \/ ShowToolGroup
  \/ Escape
  \/ \E i \in TurnIds, d \in Deltas : ContentDelta(i, d)
  \/ \E i \in TurnIds : LateUserCancelled(i)

SpecCancel == InitTools /\ [][NextCancel]_vars

\* ---------------------------------------------------------------- continuations and the queue
\* The hook on a scheduler that already tracks tool calls, with user input
\* arriving while it is busy.
NextCont == NextTools \/ \E q \in Inputs : SubmitEnqueue(q)

SpecCont == InitTools /\ [][NextCont]_vars

\* ---------------------------------------------------------------- the App
\* The App component around the hook, as far as the context summary goes:
\* it is mounted with a config (the count of context files, the MCP
\* servers) and settings (contextFileName: absent, one name, or a list),
\* and each render calls ContextSummaryDisplay with props.
MaxCount == 2

MaxNames == 2

FileNames == { "AGENTS.md", "CONTEXT.md" }

ServerNames == { "server1", "server2" }

\* getAllGeminiMdFilenames() when nothing was configured
DefaultFileNames == << "GEMINI.md" >>

NameLists == UNION { [1..n -> FileNames] : n \in 0..MaxNames }

ContextFileNameSettings ==
  { [kind |-> "absent", name |-> "", names |-> <<>>] }
    \cup { [kind |-> "name", name |-> n, names |-> <<>>] : n \in FileNames }
    \cup { [kind |-> "list", name |-> "", names |-> l] : l \in NameLists }

McpServers ==
  { [defined |-> FALSE, servers |-> {}] }
    \cup { [defined |-> TRUE, servers |-> ss] : ss \in SUBSET ServerNames }

AppInputs ==
  [geminiMdFileCount : 0..MaxCount, contextFileName : ContextFileNameSettings,
   mcpServers : McpServers]

\* A render that ignores the setting.
AlwaysDefaultNames(setting) == DefaultFileNames

\* The list of names the App derives from settings.merged.contextFileName.
contextFileNames(setting) ==
  CASE setting.kind = "list" -> setting.names
    [] setting.kind = "name" -> << setting.name >>
    [] OTHER                 -> DefaultFileNames

\* The props of <ContextSummaryDisplay ... />
ContextSummaryProps(in) ==
  [geminiMdFileCount |-> in.geminiMdFileCount,
   contextFileNames |-> contextFileNames(in.contextFileName),
   mcpServers |-> in.mcpServers]

InitApp ==
  /\ messageQueue = <<>>
  /\ isResponding = FALSE
  /\ thought = 0
  /\ pendingHistoryItem = NoItem
  /\ turnCancelledRef = FALSE
  /\ abortControllerRef = 0
  /\ aborted = [i \in TurnIds |-> FALSE]
  /\ toolCalls = <<>>
  /\ nTools = 0
  /\ history = <<>>
  /\ inv = [i \in TurnIds |-> NoInvocation]
  /\ nInv = 0
  /\ reentries = [t \in CallIdSpace |-> 0]
  /\ \E in \in AppInputs : last = Step("AppMount", 0, <<in>>)

\* The App renders: ContextSummaryDisplay is called with the props.
AppRender ==
  /\ last.op = "AppMount"
  /\ last' = Step("ContextSummaryDisplay", 0,
                  <<last.arg[1], ContextSummaryProps(last.arg[1])>>)
  /\ UNCHANGED << messageQueue, isResponding, thought, pendingHistoryItem,
                  turnCancelledRef, abortControllerRef, aborted, toolCalls,
                  nTools, history, inv, nInv, reentries >>

\* The config reports another count of context files (a memory refresh)
\* and the App renders again.
AppRefresh(count) ==
  /\ last.op = "ContextSummaryDisplay"
  /\ count # last.arg[1].geminiMdFileCount
  /\ last' = Step("AppMount", 0, <<[last.arg[1] EXCEPT !.geminiMdFileCount = count]>>)
  /\ UNCHANGED << messageQueue, isResponding, thought, pendingHistoryItem,
                  turnCancelledRef, abortControllerRef, aborted, toolCalls,
                  nTools, history, inv, nInv, reentries >>

NextApp == AppRender \/ \E count \in 0..MaxCount : AppRefresh(count)

SpecApp == InitApp /\ [][NextApp]_vars

\* ---------------------------------------------------------------- mergePartListUnions
\* The function called on every list of at most MaxList items, an item being
\* one Part or an array of at most MaxParts Parts (the empty array included).
MaxList == 3

MaxParts == 2

MergeParts == { Part(1, 0), Part(2, 1) }

PartArrays == UNION { [1..n -> MergeParts] : n \in 0..MaxParts }

PartListItems ==
  { [isArray |-> FALSE, parts |-> <<p>>] : p \in MergeParts }
    \cup { [isArray |-> TRUE, parts |-> a] : a \in PartArrays }

PartLists == UNION { [1..n -> PartListItems] : n \in 0..MaxList }

InitMerge ==
  /\ messageQueue = <<>>
  /\ isResponding = FALSE
  /\ thought = 0
  /\ pendingHistoryItem = NoItem
  /\ turnCancelledRef = FALSE
  /\ abortControllerRef = 0
  /\ aborted = [i \in TurnIds |-> FALSE]
  /\ toolCalls = <<>>
  /\ nTools = 0
  /\ history = <<>>
  /\ inv = [i \in TurnIds |-> NoInvocation]
  /\ nInv = 0
  /\ reentries = [t \in CallIdSpace |-> 0]
  /\ \E list \in PartLists : last = Step("PartListUnions", 0, <<list>>)

\* mergePartListUnions(list) is called and returns.
MergeCall ==
  /\ last.op = "PartListUnions"
  /\ last' = Step("mergePartListUnions", 0,
                  <<last.arg[1], mergePartListUnions(last.arg[1])>>)
  /\ UNCHANGED << messageQueue, isResponding, thought, pendingHistoryItem,
                  turnCancelledRef, abortControllerRef, aborted, toolCalls,
                  nTools, history, inv, nInv, reentries >>

NextMerge == MergeCall

SpecMerge == InitMerge /\ [][NextMerge]_vars

\* ---------------------------------------------------------------- claims
Busy(state) == state \in {Responding, WaitingForConfirmation}

OpenStreams == { i \in TurnIds : inv[i].pc = "stream" }

InFlight == { i \in TurnIds : inv[i].pc \in {"prepare", "refresh", "stream"} }

ToolsOutstanding(tcs) == AnyAwaitingApproval(tcs) \/ AnyToolActive(tcs)

\* The user handed a line to submitQuery in this step.
UserSubmitStep == last'.op \in {"SubmitEnqueue", "SubmitStart", "SubmitDequeue"}

\* An invocation that had reached the streaming step ended in this step.
TurnEndStep == last'.op \in {"StreamEnd", "StreamThrow"}

\* The user pressed escape in this step.
EscapeStep == last'.op \in {"Escape", "EscapeIgnored"}

\* C1: at most one turn is in flight: no invocation opens a model stream
\* while the stream of an earlier one is still open.
C1_AtMostOneOpenStream == Cardinality(OpenStreams) <= 1

\* C2: when the active turn completes normally (status Completed, not
\* cancelled, no tool call outstanding) and lines are queued, the oldest
\* line is dequeued and a turn is started for it, so that the queued lines
\* are started in the order they were enqueued.
C2_QueuedLinesStartInOrder ==
  [][ ( /\ last'.op = "StreamEnd"
        /\ ~turnCancelledRef
        /\ ~inv[last'.id].cancelSeen
        /\ ~ToolsOutstanding(toolCalls')
        /\ messageQueue # <<>>
        /\ nInv < MaxTurns )
      => ( /\ messageQueue' = Tail(messageQueue)
           /\ inv'[nInv + 1].pc = "prepare"
           /\ inv'[nInv + 1].query = StringQuery(Head(messageQueue)) ) ]_vars

\* No turn has been cancelled or has failed so far, and no tool call is
\* unfinished.
C3NoCancelNoError ==
  /\ ~turnCancelledRef
  /\ \A i \in TurnIds : inv[i].pc \in {"none", "done", "stopped"}
  /\ \A k \in DOMAIN history : history[k].type \notin {"info", "error"}
  /\ ~ToolsOutstanding(toolCalls)

\* C3: no queued line is dropped: provided no turn was cancelled or failed
\* and every tool call has finished, a step that takes lines off the queue
\* takes exactly the head and starts a turn with it.
C3_DequeuedLineIsSubmitted ==
  [][ ( C3NoCancelNoError /\ Len(messageQueue') < Len(messageQueue) )
      => ( /\ messageQueue' = Tail(messageQueue)
           /\ \E j \in TurnIds :
                /\ inv[j].pc = "none"
                /\ inv'[j].pc = "prepare"
                /\ inv'[j].query = StringQuery(Head(messageQueue)) ) ]_vars

\* The pieces of a string between its newlines, by the position of the
\* break before each: 0, or the index of a newline.
C4Breaks(s) == {0} \cup { k \in 1..Len(s) : s[k] = NL } \cup {Len(s) + 1}

C4NextBreak(s, b) ==
  CHOOSE c \in C4Breaks(s) : c > b /\ \A d \in C4Breaks(s) : d > b => c <= d

C4Piece(s, b) == SubSeq(s, b + 1, C4NextBreak(s, b) - 1)

\* The breaks that are followed by a non-blank piece.
C4NonBlank(s) ==
  { b \in C4Breaks(s) \ {Len(s) + 1} :
      \E k \in (b + 1)..(C4NextBreak(s, b) - 1) : s[k] # SP }

\* new is old followed by the non-blank pieces of s, in their order in s.
C4Appended(old, new, s) ==
  /\ Len(new) = Len(old) + Cardinality(C4NonBlank(s))
  /\ SubSeq(new, 1, Len(old)) = old
  /\ \A b \in C4NonBlank(s) :
       new[Len(old) + Cardinality({ c \in C4NonBlank(s) : c <= b })] = C4Piece(s, b)

\* C4: a line submitted by the user while the streaming state is Responding
\* or WaitingForConfirmation is only enqueued: the queue becomes the old
\* queue followed by the non-blank lines of the input in order, and the
\* responding flag, the abort controller, the cancellation flag, the
\* history, the pending item and the invocations (no new turn, no stream)
\* are unchanged.
C4_BusySubmitOnlyEnqueues ==
  [][ ( UserSubmitStep /\ Busy(streamingState) )
      => ( /\ last'.op = "SubmitEnqueue"
           /\ C4Appended(messageQueue, messageQueue', last'.arg)
           /\ UNCHANGED << isResponding, abortControllerRef, aborted,
                           turnCancelledRef, history, pendingHistoryItem, inv,
                           nInv, toolCalls >> ) ]_vars

\* A second multi-line input was enqueued behind the first while a stream
\* was open.
C4_Witness ==
  /\ last.op = "SubmitEnqueue"
  /\ last.arg = <<"a", NL, SP, NL, "b">>
  /\ messageQueue = << <<"a">>, <<"b">>, <<"a">>, <<"b">> >>
  /\ OpenStreams # {}

\* What a cancel shows: the flag, the signals, the history, the pending item
\* and the responding flag.
C5Observable ==
  << turnCancelledRef, aborted, history, pendingHistoryItem, isResponding,
     messageQueue, toolCalls, inv >>

\* C5: an escape press that is accepted sets the flag, commits the pending
\* item (if any) once and appends one 'Request cancelled.' entry; an escape
\* press made while the flag is set, or right after another escape press,
\* changes nothing.
C5_CancelIdempotent ==
  [][ /\ last'.op = "Escape"
        => /\ ~turnCancelledRef /\ turnCancelledRef'
           /\ history' = Append(Flush(history, pendingHistoryItem),
                                RequestCancelledItem)
           /\ pendingHistoryItem' = NoItem
      /\ ( EscapeStep /\ (turnCancelledRef \/ last.op \in {"Escape", "EscapeIgnored"}) )
        => UNCHANGED C5Observable ]_vars

\* Escape was pressed again after the cancel, the cancelled turn's stream
\* still open.
C5_Witness ==
  /\ last.op = "EscapeIgnored"
  /\ turnCancelledRef
  /\ OpenStreams # {}
  /\ history # <<>> /\ history[Len(history)] = RequestCancelledItem

RECURSIVE C7Payloads(_)
C7Payloads(tcs) ==
  IF tcs = <<>> THEN <<>>
  ELSE LET t == tcs[Len(tcs)].callId
       IN C7Payloads(SubSeq(tcs, 1, Len(tcs) - 1)) \o
            (IF t % 2 = 0 THEN <<Part(t, 1), Part(t, 2)>> ELSE <<Part(t, 0)>>)

C7Finished(tc) ==
  tc.status \in {"success", "error", "cancelled"} /\ ~tc.responseSubmittedToGemini

\* C7: while a tool call is finished and not marked submitted the effect can
\* run with no user action; when it runs it marks exactly the finished
\* calls and starts a continuation turn whose query is their response
\* payloads merged in list order; that turn goes on to open a stream.
C7_FinishedToolsContinue ==
  /\ []( /\ ( (\E k \in DOMAIN toolCalls : C7Finished(toolCalls[k])) /\ nInv < MaxTurns )
             => ENABLED ToolResponseEffect
         /\ \A i \in TurnIds :
              /\ (inv[i].isCont /\ inv[i].pc = "prepare") => ENABLED PrepareProceed(i)
              /\ (inv[i].isCont /\ inv[i].pc = "refresh") => ENABLED OpenStream(i) )
  /\ [][ last'.op = "ToolResponseEffect"
         => /\ \E k \in DOMAIN toolCalls : C7Finished(toolCalls[k])
            /\ inv[nInv + 1].pc = "none"
            /\ inv'[nInv + 1].pc = "prepare"
            /\ inv'[nInv + 1].isCont
            /\ inv'[nInv + 1].query =
                 PartsQuery(C7Payloads(SelectSeq(toolCalls, C7Finished)))
            /\ DOMAIN toolCalls' = DOMAIN toolCalls
            /\ \A k \in DOMAIN toolCalls :
                 /\ toolCalls'[k].callId = toolCalls[k].callId
                 /\ toolCalls'[k].status = toolCalls[k].status
                 /\ toolCalls'[k].responseSubmittedToGemini
                      <=> ( toolCalls[k].responseSubmittedToGemini
                            \/ C7Finished(toolCalls[k]) ) ]_vars

\* The stream of a continuation is open whose query merges the payloads of
\* tool calls 2 and 1, tracked in that order.
C7_Witness ==
  \E i \in TurnIds :
    /\ inv[i].pc = "stream"
    /\ inv[i].isCont
    /\ inv[i].query = PartsQuery(<<Part(2, 1), Part(2, 2), Part(1, 0)>>)
    /\ \A k \in DOMAIN toolCalls : toolCalls[k].responseSubmittedToGemini

C8Awaiting == \E k \in DOMAIN toolCalls : toolCalls[k].status = "awaiting_approval"

C8Active ==
  \/ isResponding
  \/ \E k \in DOMAIN toolCalls :
       \/ toolCalls[k].status \in {"executing", "scheduled", "validating"}
       \/ /\ toolCalls[k].status \in {"success", "error", "cancelled"}
          /\ ~toolCalls[k].responseSubmittedToGemini

\* C8: the streaming state read from a responding flag and a tool call list
\* is WaitingForConfirmation if a tool call awaits approval (whatever the
\* rest), else Responding if the flag is set or a tool call is executing,
\* scheduled, validating or finished and not submitted, else Idle.
C8_StreamingStateByCases ==
  last.op = "streamingState"
    => /\ C8Awaiting => last.arg = <<WaitingForConfirmation>>
       /\ (~C8Awaiting /\ C8Active) => last.arg = <<Responding>>
       /\ (~C8Awaiting /\ ~C8Active) => last.arg = <<Idle>>

\* Read with the flag set, one tool call awaiting approval and another
\* executing.
C8_Witness ==
  /\ last = Step("streamingState", 0, <<WaitingForConfirmation>>)
  /\ isResponding
  /\ \E j, k \in DOMAIN toolCalls :
       toolCalls[j].status = "awaiting_approval" /\ toolCalls[k].status = "executing"

\* The user pressed escape, or the stream delivered UserCancelled.
CancelStep == last'.op \in {"Escape", "EscapeIgnored", "UserCancelledEvent"}

\* C9: a cancel that arrives while a stream is open and a tool call awaits
\* approval commits the pending item (its unfinished tool entries as
\* cancelled) and leaves the streaming state Idle.
C9_CancelWhileAwaitingApproval ==
  [][ ( CancelStep /\ OpenStreams # {} /\ AnyAwaitingApproval(toolCalls) )
      => ( /\ pendingHistoryItem' = NoItem
           /\ pendingHistoryItem # NoItem
                => \E k \in DOMAIN history' :
                     k > Len(history) /\ history'[k] = CancelledItem(pendingHistoryItem)
           /\ streamingState' = Idle ) ]_vars

\* C10: the end of a turn that was cancelled (flag, UserCancelled event or
\* ERR_CANCELED), that failed or that left a tool call outstanding leaves
\* the message queue as it was: a line is dequeued at the end of a turn
\* only if none of these is the case.
C10_DrainOnlyAfterCleanTurn ==
  [][ ( /\ TurnEndStep
        /\ \/ turnCancelledRef
           \/ inv[last'.id].cancelSeen
           \/ last'.arg # <<"Completed", "ok">>
           \/ ToolsOutstanding(toolCalls') )
      => messageQueue' = messageQueue ]_vars

\* A cancelled turn has ended with two lines queued, and they are still
\* queued.
C10_Witness ==
  /\ last.op = "StreamEnd"
  /\ turnCancelledRef
  /\ messageQueue = << <<"a">>, <<"b">> >>

\* C11: a failure thrown by the stream is rendered, cleanup runs, and the
\* next queued line is then dequeued and submitted as a new turn.
C11_DrainContinuesAfterFailure ==
  [][ ( /\ last'.op = "StreamThrow"
        /\ last'.arg[3] = "Error"
        /\ inv[last'.id].pc = "stream"
        /\ messageQueue # <<>>
        /\ nInv < MaxTurns )
      => ( /\ messageQueue' = Tail(messageQueue)
           /\ inv'[nInv + 1].pc = "prepare"
           /\ inv'[nInv + 1].query = StringQuery(Head(messageQueue)) ) ]_vars

\* The number of error entries in a history.
C12Errors(h) == Cardinality({ k \in DOMAIN h : h[k].type = "error" })

\* C12: a failure thrown while the stream is opened or consumed is caught
\* in submitQuery, which settles: an UnauthorizedError calls onAuthError and
\* adds no error entry, ERR_CANCELED counts as user cancellation and adds no
\* error entry, any other failure adds exactly one error entry; in each case
\* the responding flag is false afterwards.
C12_FailuresCaughtAndClassified ==
  [][ last'.op = "StreamThrow"
      => LET i == last'.id
             e == last'.arg[3]
         IN /\ inv[i].pc \in {"refresh", "stream"}
            /\ inv'[i].pc = "failed"
            /\ ~isResponding'
            /\ e = "UnauthorizedError"
                 => /\ last'.arg[4] = <<"onAuthError">>
                    /\ C12Errors(history') = C12Errors(history)
            /\ e = "ERR_CANCELED"
                 => /\ last'.arg[1] = "UserCancelled"
                    /\ last'.arg[4] = <<>>
                    /\ C12Errors(history') = C12Errors(history)
            /\ e \notin {"UnauthorizedError", "ERR_CANCELED"}
                 => /\ last'.arg[4] = <<>>
                    /\ C12Errors(history') = C12Errors(history) + 1
                    /\ history'[Len(history')].type = "error" ]_vars

\* An open stream threw a plain error while text was pending: the text and
\* then one error entry are in the history and the turn is over.
C12_Witness ==
  /\ last.op = "StreamThrow"
  /\ last.arg[3] = "Error"
  /\ ~isResponding
  /\ pendingHistoryItem = NoItem
  /\ Len(history) >= 2
  /\ history[Len(history) - 1].type = "gemini"
  /\ history[Len(history)] = ErrorItem
  /\ C12Errors(history) = 1

\* The stream of a turn delivered an event in this step.
StreamEventStep ==
  last'.op \in { "ContentEvent", "ThoughtEvent", "ToolCallRequestEvent",
                 "UserCancelledEvent", "ErrorEvent", "ChatCompressedEvent",
                 "UsageMetadataEvent" }

\* C13: once the cancellation flag is set, an event of the cancelled turn's
\* stream leaves the committed history and the pending item unchanged.
C13_EventsAfterCancelAreNoOps ==
  [][ ( /\ StreamEventStep
        /\ turnCancelledRef
        /\ aborted[last'.id] )
      => UNCHANGED << history, pendingHistoryItem >> ]_vars

\* C14: after the user has cancelled a turn, the end of its stream hands no
\* tool call batch collected from that stream to the scheduler.
C14_NoToolWorkAfterCancel ==
  [][ ( last'.op = "StreamEnd" /\ aborted[last'.id] /\ turnCancelledRef )
        => toolCalls' = toolCalls ]_vars

\* C15: an accepted cancel aborts the signal of the open stream of the
\* latest turn and the signal given to the scheduler with every tool call
\* that is still validating, scheduled or executing.
C15_CancelAbortsTurnSignal ==
  [][ last'.op = "Escape"
        => /\ ( nInv > 0 /\ inv[nInv].pc = "stream" ) => aborted'[nInv]
           /\ \A k \in DOMAIN toolCalls :
                toolCalls[k].status \in {"validating", "scheduled", "executing"}
                  => aborted'[toolCalls[k].signal] ]_vars

\* C16: tool call requests of a stream are only collected while it is
\* open; when it ends the scheduler gets all of them once, as one batch in
\* arrival order with the signal of the turn, and nothing when there are
\* none.
C16StreamStep == last'.op \in {"OpenStream", "ContentEvent", "ToolCallRequestEvent"}

C16Batch(i) == [k \in 1..Len(inv[i].reqs) |-> Tracked(inv[i].reqs[k], i)]

C16_BatchScheduledAtStreamEnd ==
  [][ /\ C16StreamStep => toolCalls' = toolCalls
      /\ last'.op = "ToolCallRequestEvent"
           => /\ Len(inv'[last'.id].reqs) = Len(inv[last'.id].reqs) + 1
              /\ SubSeq(inv'[last'.id].reqs, 1, Len(inv[last'.id].reqs))
                   = inv[last'.id].reqs
      /\ last'.op = "StreamEnd"
           => /\ toolCalls' = toolCalls \o C16Batch(last'.id)
              /\ Len(toolCalls') = nTools ]_vars

C16_Witness ==
  /\ last.op = "StreamEnd"
  /\ Len(toolCalls) = 2
  /\ \A k \in 1..2 : toolCalls[k].callId = k /\ toolCalls[k].signal = last.id

\* C17: in a stream that is not cancelled, the text pieces committed to
\* history, in order, followed by the text of the pending item are the
\* deltas received so far, in order: a Content event extends that text by
\* its delta and no other step changes it.
RECURSIVE C17Committed(_)
C17Committed(h) ==
  IF h = <<>> THEN <<>>
  ELSE (IF IsGeminiItem(Head(h)) THEN Head(h).text ELSE <<>>) \o C17Committed(Tail(h))

C17Shown(h, pending) ==
  C17Committed(h) \o (IF IsGeminiItem(pending) THEN pending.text ELSE <<>>)

C17_SplittingKeepsContent ==
  [][ IF last'.op = "ContentEvent"
        THEN C17Shown(history', pendingHistoryItem')
               = C17Shown(history, pendingHistoryItem) \o last'.arg
        ELSE C17Shown(history', pendingHistoryItem')
               = C17Shown(history, pendingHistoryItem) ]_vars

C17_Witness ==
  /\ last.op = "ContentEvent"
  /\ pendingHistoryItem.type = "gemini_content" /\ pendingHistoryItem.text # <<>>
  /\ \E j, k \in DOMAIN history :
        /\ j < k
        /\ history[j].type = "gemini" /\ history[j].text # <<>>
        /\ history[k].type = "gemini_content" /\ history[k].text # <<>>

\* C18: while the stream of a turn is open, the text flushed to history by
\* handling its deltas one at a time is the prefix that one call of the
\* splitter on the whole text received so far selects (nothing when the
\* splitter returns the length).
C18OneShot(full) ==
  IF findLastSafeSplitPoint(full) = Len(full) THEN <<>>
  ELSE SubSeq(full, 1, findLastSafeSplitPoint(full))

C18_IncrementalEqualsOneShot ==
  ( nInv = 1 /\ inv[1].pc = "stream" )
    => C17Committed(history) = C18OneShot(C17Shown(history, pendingHistoryItem))

\* C19: when a turn that entered the try block ends, by a normal stream
\* end or by a throw, cancelled or not, the pending item it found is in the
\* committed history right after the items that were there, and afterwards
\* the pending item is null, isResponding is false, the abort controller
\* reference is cleared and the invocation has settled.
C19TurnEnd == last'.op \in {"StreamEnd", "StreamThrow"}

C19_TurnEndCleansUp ==
  [][ C19TurnEnd
        => /\ inv[last'.id].pc \in {"refresh", "stream"}
           /\ inv'[last'.id].pc \in {"done", "failed"}
           /\ Len(history') >= Len(history)
           /\ SubSeq(history', 1, Len(history)) = history
           /\ pendingHistoryItem # NoItem
                => /\ Len(history') > Len(history)
                   /\ history'[Len(history) + 1] = pendingHistoryItem
           /\ pendingHistoryItem' = NoItem
           /\ ~isResponding'
           /\ abortControllerRef' = 0 ]_vars

C19_Witness ==
  /\ last.op = "StreamEnd"
  /\ history # <<>> /\ history[Len(history)] = TextItem("gemini", <<"x">>)
  /\ pendingHistoryItem = NoItem
  /\ ~isResponding
  /\ abortControllerRef = 0

\* C20: a submitQuery that is not a continuation, arriving while no turn is
\* active and the queue is not empty, removes exactly the oldest queued line
\* and starts the turn with that line; the other lines keep their order and
\* the caller's query is neither queued nor sent.
C20_DirectSubmitStartsOldest ==
  [][ last'.op = "SubmitDequeue"
        => /\ messageQueue # <<>>
           /\ messageQueue' = Tail(messageQueue)
           /\ inv'[last'.id].pc = "prepare"
           /\ inv'[last'.id].query = StringQuery(Head(messageQueue)) ]_vars

\* C21: when prepareQueryForGemini answers shouldProceed = false the turn
\* ends at once, without a stream, without an error entry and with
\* isResponding false; and when lines are queued at that moment the oldest
\* is dequeued and a turn is started with it.
C21StopStep == last'.op \in {"PrepareStop", "PrepareTool"}

C21_StoppedTurnDrainsQueue ==
  [][ C21StopStep
        => /\ inv'[last'.id].pc = "stopped"
           /\ ~isResponding'
           /\ history' = history
           /\ ( messageQueue # <<>> /\ nInv < MaxTurns )
                => /\ messageQueue' = Tail(messageQueue)
                   /\ inv'[nInv + 1].pc = "prepare"
                   /\ inv'[nInv + 1].query = StringQuery(Head(messageQueue)) ]_vars

\* C22: the turn loop ends in a finished state.  A state in which no
\* invocation is in flight and no tool call is unfinished or unsubmitted can
\* only be left by new input; the loop terminates as claimed when every such
\* state has streamingState Idle and, when no turn was cancelled or failed,
\* an empty message queue.
C22Quiescent == InFlight = {} /\ ~ToolsOutstanding(toolCalls)

C22_QuiescentIsIdleAndDrained ==
  C22Quiescent
    => /\ streamingState = Idle
       /\ C3NoCancelNoError => messageQueue = <<>>

\* C23: the cancellation flag is write-once-true for its turn: while the
\* stream of a turn that the user cancelled is still open, before and after
\* a step, the flag that was set stays set.
C23CancelledOpen(i) == inv[i].pc = "stream" /\ aborted[i]

C23_FlagStaysSetWhileStreamOpen ==
  [][ ( /\ turnCancelledRef
        /\ \E i \in TurnIds : C23CancelledOpen(i) /\ inv'[i].pc = "stream" )
      => turnCancelledRef' ]_vars

C25Committed(item) ==
  IF item.type # "tool_group" THEN item
  ELSE [type |-> "tool_group", text |-> item.text,
        tools |-> [k \in DOMAIN item.tools |->
                     [callId |-> item.tools[k].callId,
                      status |-> IF item.tools[k].status = "Pending" THEN "Canceled"
                                 ELSE IF item.tools[k].status = "Confirming" THEN "Canceled"
                                 ELSE IF item.tools[k].status = "Executing" THEN "Canceled"
                                 ELSE item.tools[k].status]]]

C25Notices(h) == Cardinality({ k \in DOMAIN h : h[k] = UserCancelledItem })

C25_UserCancelledEvent ==
  [][ last'.op = "UserCancelledEvent"
        => IF turnCancelledRef
             THEN UNCHANGED << history, pendingHistoryItem, isResponding,
                               messageQueue, toolCalls, turnCancelledRef,
                               thought >>
             ELSE /\ history' = ( IF pendingHistoryItem = NoItem THEN history
                                  ELSE Append(history, C25Committed(pendingHistoryItem)) )
                                  \o << UserCancelledItem >>
                  /\ C25Notices(history') = C25Notices(history) + 1
                  /\ pendingHistoryItem' = NoItem
                  /\ ~isResponding' ]_vars

C25_Witness ==
  /\ last.op = "UserCancelledEvent"
  /\ Len(history) >= 2
  /\ history[Len(history)] = UserCancelledItem
  /\ LET g == history[Len(history) - 1]
     IN /\ g.type = "tool_group"
        /\ Len(g.tools) = 2
        /\ \E j, k \in 1..2 :
             /\ g.tools[j].status = "Canceled" /\ toolCalls[j].status = "executing"
             /\ g.tools[k].status = "Success"

\* C26: an Error event commits the pending item, if any, clears it and adds
\* one error entry; it does not end the stream: the requests collected so
\* far are kept, the events after it are handled as before it, and the
\* stream end schedules every request of the stream, those before the error
\* and those after it.
C26ErrorSeen == \E k \in DOMAIN history : history[k] = ErrorItem

C26_ErrorEventKeepsStreamGoing ==
  [][ /\ last'.op = "ErrorEvent"
           => /\ history' = ( IF pendingHistoryItem = NoItem THEN history
                              ELSE Append(history, pendingHistoryItem) )
                              \o << ErrorItem >>
              /\ pendingHistoryItem' = NoItem
              /\ inv'[last'.id].pc = "stream"
              /\ inv'[last'.id].reqs = inv[last'.id].reqs
              /\ inv'[last'.id].buf = inv[last'.id].buf
              /\ toolCalls' = toolCalls
      /\ ( C26ErrorSeen /\ last'.op = "ContentEvent" )
           => C17Shown(history', pendingHistoryItem')
                = C17Shown(history, pendingHistoryItem) \o last'.arg
      /\ ( C26ErrorSeen /\ last'.op = "ToolCallRequestEvent" )
           => Len(inv'[last'.id].reqs) = Len(inv[last'.id].reqs) + 1
      /\ ( C26ErrorSeen /\ last'.op = "StreamEnd" )
           => /\ Len(toolCalls') = nTools
              /\ \A k \in DOMAIN toolCalls' :
                   toolCalls'[k].callId = k /\ toolCalls'[k].signal = last'.id ]_vars

C26_Witness ==
  /\ last.op = "StreamEnd"
  /\ Len(history) = 3
  /\ history[2] = ErrorItem
  /\ history[3] = TextItem("gemini", <<"x">>)
  /\ Len(toolCalls) = 2

\* C27: the entries a stream commits are in the order of the events that
\* caused them: when an event other than Content adds an entry, the text
\* that earlier Content events left pending is committed before that entry.
C27PendingText == IsGeminiItem(pendingHistoryItem) /\ pendingHistoryItem.text # <<>>

C27NoticeStep ==
  /\ last'.op \in {"ErrorEvent", "ChatCompressedEvent", "UserCancelledEvent"}
  /\ Len(history') > Len(history)

C27_EntriesInArrivalOrder ==
  [][ ( C27NoticeStep /\ C27PendingText )
        => /\ Len(history') = Len(history) + 2
           /\ history'[Len(history) + 1] = pendingHistoryItem
           /\ pendingHistoryItem' = NoItem ]_vars

\* C28: a submitQuery with isContinuation is neither enqueued nor does it
\* dequeue: whatever the streaming state and the queue, the effect that has
\* finished tool calls to report starts a turn with their merged response
\* parts and leaves the queue alone; that turn adds no user entry to the
\* history and sends the payload it was given.
C28Continuation(i) == inv[i].isCont /\ inv[i].query.kind = "parts"

C28ContinuationStep ==
  /\ last'.op \in {"PrepareProceed", "OpenStream"}
  /\ C28Continuation(last'.id)

C28_ContinuationBypassesQueue ==
  /\ []( ( Len(CompletedTools) > 0 /\ nInv < MaxTurns ) => ENABLED ToolResponseEffect )
  /\ [][ /\ last'.op = "ToolResponseEffect"
              => /\ messageQueue' = messageQueue
                 /\ inv'[last'.id].pc = "prepare"
                 /\ inv'[last'.id].isCont
                 /\ inv'[last'.id].query
                      = PartsQuery(mergePartListUnions(ToolParts(CompletedTools)))
         /\ C28ContinuationStep
              => /\ messageQueue' = messageQueue
                 /\ history' = history
                 /\ inv'[last'.id].query = inv[last'.id].query
                 /\ inv'[last'.id].pc # inv[last'.id].pc ]_vars

C28_Witness ==
  /\ last.op = "OpenStream"
  /\ C28Continuation(last.id)
  /\ inv[last.id].capState = WaitingForConfirmation
  /\ Len(inv[last.id].capQueue) > 0
  /\ messageQueue = inv[last.id].capQueue
  /\ \A k \in DOMAIN history : history[k].type # "user"

\* C29: a Thought event replaces the thought by the summary it carries, so
\* that the thought is the last summary received, no other event of the
\* stream changing it; and it changes neither the committed history, nor
\* the pending item, nor the message queue.
C29OtherEventStep ==
  last'.op \in {"ContentEvent", "ToolCallRequestEvent", "UsageMetadataEvent"}
               \cup VoidEvents

C29_LatestThoughtWins ==
  [][ /\ last'.op = "ThoughtEvent"
           => /\ thought' = last'.arg[1]
              /\ UNCHANGED << history, pendingHistoryItem, messageQueue >>
      /\ C29OtherEventStep => thought' = thought ]_vars

C29_Witness ==
  /\ last.op = "ThoughtEvent"
  /\ last.arg = << 2 >>
  /\ thought = 2
  /\ inv[last.id].nEv = MaxDeltas
  /\ pendingHistoryItem = TextItem("gemini", <<"x">>)

\* C30: UsageMetadata, ToolCallConfirmation and ToolCallResponse events
\* change neither the committed history, nor the pending item, nor the text
\* buffer, nor the collected tool call requests, nor the message queue, nor
\* the cancellation flag; a UsageMetadata event makes one call to the usage
\* sink and the other two make none.
C30SideStep == last'.op \in {"UsageMetadataEvent"} \cup VoidEvents

C30_SideEventsChangeNothing ==
  [][ C30SideStep
        => /\ UNCHANGED << history, pendingHistoryItem, messageQueue,
                           turnCancelledRef, toolCalls >>
           /\ inv'[last'.id].buf = inv[last'.id].buf
           /\ inv'[last'.id].reqs = inv[last'.id].reqs
           /\ inv'[last'.id].pc = "stream"
           /\ last'.arg = ( IF last'.op = "UsageMetadataEvent"
                              THEN << "addUsage" >> ELSE << >> ) ]_vars

C30_Witness ==
  /\ last.op = "UsageMetadataEvent"
  /\ last.arg = << "addUsage" >>
  /\ inv[last.id].buf = << "x" >>
  /\ inv[last.id].reqs = << 1 >>
  /\ pendingHistoryItem = TextItem("gemini", <<"x">>)

\* C31: mergePartListUnions returns one flat list holding, in input order,
\* the elements of every array item and every other item itself: nothing is
\* dropped, nothing is flattened further, and the empty list gives the
\* empty list.
C31Size(item) == IF item.isArray THEN Len(item.parts) ELSE 1

RECURSIVE C31Offset(_, _)
C31Offset(list, k) ==
  IF k <= 1 THEN 0 ELSE C31Offset(list, k - 1) + C31Size(list[k - 1])

C31_MergeFlattensOneLevel ==
  last.op = "mergePartListUnions"
    => LET list == last.arg[1]
           out  == last.arg[2]
       IN /\ Len(out) = C31Offset(list, Len(list) + 1)
          /\ list = <<>> => out = <<>>
          /\ \A k \in DOMAIN list :
               \A j \in 1..C31Size(list[k]) :
                 out[C31Offset(list, k) + j] = list[k].parts[j]

C31_Witness ==
  /\ last.op = "mergePartListUnions"
  /\ last.arg[1] = << [isArray |-> TRUE, parts |-> <<Part(2, 1), Part(1, 0)>>],
                      [isArray |-> TRUE, parts |-> <<>>],
                      [isArray |-> FALSE, parts |-> <<Part(2, 1)>>] >>
  /\ last.arg[2] = << Part(2, 1), Part(1, 0), Part(2, 1) >>

\* C32: every pending item is committed to history exactly once.  In every
\* step history only grows; a pending item other than streamed text that is
\* cleared or replaced is among the new entries exactly once (a tool group
\* possibly with its unfinished tools marked Canceled) and one that stays
\* pending is not among them; the characters of pending streamed text are
\* found exactly once in the new entries and the text still pending.
C32New == SubSeq(history', Len(history) + 1, Len(history'))

C32Copies(item) ==
  Cardinality({ k \in DOMAIN C32New : C32New[k] \in {item, CancelledItem(item)} })

C32Delta ==
  IF last'.op = "ContentEvent" /\ ~turnCancelledRef THEN last'.arg ELSE <<>>

C32_PendingCommittedOnce ==
  [][ /\ Len(history') >= Len(history)
      /\ SubSeq(history', 1, Len(history)) = history
      /\ (pendingHistoryItem # NoItem /\ ~IsGeminiItem(pendingHistoryItem))
           => C32Copies(pendingHistoryItem)
                = (IF pendingHistoryItem' = pendingHistoryItem THEN 0 ELSE 1)
      /\ IsGeminiItem(pendingHistoryItem)
           => C17Shown(C32New, pendingHistoryItem')
                = pendingHistoryItem.text \o C32Delta ]_vars

\* C33: within one turn at most one cancellation notice ('Request cancelled.'
\* or 'User cancelled the request.') is appended to history, whatever escape
\* presses and UserCancelled events the turn sees.  Stated for the single
\* turn of a specification that starts one turn only.
C33Notices ==
  Cardinality({ k \in DOMAIN history :
                  history[k] \in {RequestCancelledItem, UserCancelledItem} })

C33_OneCancellationNotice == nInv <= 1 => C33Notices <= 1

\* C34: every entry of the message queue is a non-blank string without a
\* newline, and the queue changes only by entries appended at its tail or
\* by its head removed.
C34WellFormed(queue) ==
  \A k \in DOMAIN queue :
    /\ NonBlank(queue[k])
    /\ \A j \in DOMAIN queue[k] : queue[k][j] # NL

C34Appended(queue, queue2) ==
  /\ Len(queue2) > Len(queue)
  /\ SubSeq(queue2, 1, Len(queue)) = queue

C34HeadRemoved(queue, queue2) == queue # <<>> /\ queue2 = Tail(queue)

C34_QueueWellFormedAndFifo ==
  [][ /\ C34WellFormed(messageQueue')
      /\ messageQueue' # messageQueue
           => \/ C34Appended(messageQueue, messageQueue')
              \/ C34HeadRemoved(messageQueue, messageQueue') ]_vars

====
